---- MODULE Spec2Model ----
(***************************************************************************)
(* IconForge (IconGenerator): the page-side application class IconForgeApp *)
(* in its two copies, src/script.js and src/unnamed/part_000, the service  *)
(* worker (src/unnamed/part_002) and the access-control script in its two  *)
(* copies (src/unnamed/part_001 and the head of src/unnamed/part_002).     *)
(*                                                                         *)
(* The page is one cooperative thread: every action below is one run of    *)
(* JavaScript from an event (a click, a drop, a timer, a request           *)
(* completing) to the next await.  An async method is therefore several    *)
(* actions, one per suspension point, and handlers of different events     *)
(* interleave at those points.  The timer that follows the end of          *)
(* processFile, of the text icon's onload callback and of downloadAllIcons *)
(* (hideLoading and the success notification) is taken with the step that  *)
(* sets it.                                                                *)
(*                                                                         *)
(* Of the DOM, the loading overlay and the items of the preview grid are   *)
(* modelled.  Not modelled: the progress bar, the encoded pixels, and the  *)
(* timestamp fields, none of which is read back by the code.               *)
(***************************************************************************)
EXTENDS Integers, Sequences, FiniteSets, TLC

(***************************************************************************)
(* Bounds of the model.                                                    *)
(***************************************************************************)
\* generation runs (accepted uploads or texts) in one page session
MaxRuns == 2
\* change events of the size checkboxes and format radios in one page session
MaxUiChanges == 2
\* put requests on the settings store in flight at once
MaxPending == 2
\* characters typed into the text field
MaxTextLen == 4
\* loads of the page in one tab
MaxLoads == 5

(***************************************************************************)
(* The page's controls.  index.html is not among the sources: the          *)
(* checkboxes input[name="iconSize"] are taken in document order, with     *)
(* values on both sides of the 72 and 192 thresholds; the radios           *)
(* input[name="format"] carry the three formats of the encoder switch.     *)
(***************************************************************************)
Checkboxes == <<16, 72, 192>>

Formats == {"png", "jpeg", "webp"}

NoRadio == "none"

Copies == {"script_js", "part_000"}

VARIABLES
  copy,            \* which copy of the application the page loaded
  bound,           \* the event listeners are bound (init reached bindEventListeners)
  db,              \* this.db: "open" or "null"
  session,         \* page loads so far
  checked,         \* values of the checked input[name="iconSize"]
  formatRadio,     \* value of the checked input[name="format"], or NoRadio
  uiChanges,       \* change events of the controls in this session
  jsZipLoaded,     \* typeof JSZip !== 'undefined'
  currentImage,    \* this.currentImage: 0 is null, else the image's identity
  generatedIcons,  \* this.generatedIcons
  runs,            \* the invocations of processFile / generateTextIcon that passed validation
  zipJob,          \* the suspended downloadAllIcons, or NoJob
  iconsStore,      \* object store 'icons'
  settingsStore,   \* object store 'settings': the record under 'userSettings', or NoSettings
  pendingPuts,     \* put requests on 'settings' not yet completed
  evt,             \* what the latest step was handed: the file dropped, the text typed
  notification,    \* what the latest step showed: "error", "success", "info" or "none"
  archive,         \* the archive the latest step handed to the browser, or NoArchive
  pwaManifest,     \* the manifest.json the latest step handed to the browser, or NoManifest
  fit,             \* the frame of fitTextToCanvas
  sw,              \* the service worker: its phase, the caches, its suspended handlers
  swOut,           \* what the worker's latest step gave out: a response, a reply
  ac,              \* the tab as the access-control script sees it: sessionStorage, location
  dom              \* the loading overlay (shown or not) and the items of the preview grid

vars == <<copy, bound, db, session, checked, formatRadio, uiChanges, jsZipLoaded,
          currentImage, generatedIcons, runs, zipJob, iconsStore, settingsStore,
          pendingPuts, evt, notification, archive, pwaManifest, fit, sw, swOut, ac,
          dom>>

pageVars == <<copy, bound, db, session, checked, formatRadio, uiChanges, jsZipLoaded,
              currentImage, generatedIcons, runs, zipJob, iconsStore, settingsStore,
              pendingPuts, fit, ac, dom>>

NoJob == [pc |-> "none"]
NoArchive == [made |-> FALSE]
NoManifest == [made |-> FALSE]
NoSettings == [key |-> "none"]
NoEvent == [kind |-> "none"]
NoFit == [pc |-> "idle"]

\* the page as the markup has it: the overlay hidden, the preview grid empty
NewDom == [loadingOverlay |-> FALSE, previewGrid |-> <<>>]

showLoading(d) == [d EXCEPT !.loadingOverlay = TRUE]

hideLoading(d) == [d EXCEPT !.loadingOverlay = FALSE]

\* showPreview: the grid is emptied and gets one item per icon of the list
showPreview(d, list) == [d EXCEPT !.previewGrid = list]

(***************************************************************************)
(* Helpers on sequences.                                                   *)
(***************************************************************************)
Range(s) == {s[k] : k \in DOMAIN s}

RECURSIVE SeqsUpTo(_, _)
SeqsUpTo(S, n) ==
  IF n = 0 THEN {<<>>}
  ELSE LET shorter == SeqsUpTo(S, n - 1)
       IN  shorter \cup {Append(t, c) : t \in {u \in shorter : Len(u) = n - 1}, c \in S}

(***************************************************************************)
(* What a step takes in and puts out.  evt, notification, archive and      *)
(* pwaManifest describe the latest step only: a step that is handed no     *)
(* input, shows nothing or downloads nothing leaves NoEvent, "none",       *)
(* NoArchive, NoManifest.  showError / showSuccess / showFeedback are      *)
(* showNotification with type error / success / info.                      *)
(***************************************************************************)
Step(input, shown, zipped, manifest) ==
  /\ evt' = input
  /\ notification' = shown
  /\ archive' = zipped
  /\ pwaManifest' = manifest

showError == "error"

showSuccess == "success"

showFeedback == "info"

(***************************************************************************)
(* getSelectedSizes / getSelectedFormat.                                   *)
(***************************************************************************)
getSelectedSizes(chk) == SelectSeq(Checkboxes, LAMBDA v : v \in chk)

getSelectedFormat(radio) == IF radio = NoRadio THEN "png" ELSE radio

SelectedSizes == getSelectedSizes(checked)

SelectedFormat == getSelectedFormat(formatRadio)

(***************************************************************************)
(* validateFile, in each copy.  Sizes are in bytes.                        *)
(***************************************************************************)
MiB == 1048576

validTypes == {"image/jpeg", "image/jpg", "image/png", "image/bmp"}

maxSize(c) == IF c = "script_js" THEN 10 * MiB ELSE 50 * MiB

\* validateFile without its size test
validateFileTypeOnly(c, file) == file.type \in validTypes

validateFile(c, file) == file.type \in validTypes /\ ~(file.size > maxSize(c))

FileTypes == {"image/png", "image/gif"}

FileSizes == {10 * MiB, 10 * MiB + 1, 50 * MiB + 1}

Files == [type : FileTypes, size : FileSizes]

(***************************************************************************)
(* The text field: a string is a sequence of characters; trim() drops the  *)
(* white space at both ends.                                               *)
(***************************************************************************)
Chars == {"a", " "}

Texts == SeqsUpTo(Chars, MaxTextLen)

RECURSIVE trimStart(_)
trimStart(t) == IF t # <<>> /\ Head(t) = " " THEN trimStart(Tail(t)) ELSE t

RECURSIVE trimEnd(_)
trimEnd(t) ==
  IF t # <<>> /\ t[Len(t)] = " " THEN trimEnd(SubSeq(t, 1, Len(t) - 1)) ELSE t

trim(t) == trimEnd(trimStart(t))

textAccepted(raw) == LET text == trim(raw) IN ~(Len(text) = 0) /\ ~(Len(text) > 3)

(***************************************************************************)
(* One artifact of generateIcons.                                          *)
(***************************************************************************)
mimeTypeOf(format) ==
  CASE format = "jpeg" -> "image/jpeg"
    [] format = "webp" -> "image/webp"
    [] OTHER -> "image/png"

Filename(size, format) == <<"icon", size, size, format>>

Artifact(image, size, format, type) ==
  [size |-> size,
   format |-> format,
   dataUrl |-> <<image, size, mimeTypeOf(format)>>,
   type |-> type,
   filename |-> Filename(size, format)]

(***************************************************************************)
(* A run is one invocation of processFile or generateTextIcon that passed  *)
(* validation.  Its image is a fresh Image object, identified by the run's *)
(* position in runs.                                                       *)
(*   pc = "loading"  awaiting createImageFromFile / image.onload           *)
(*   pc = "gen"      inside generateIcons, suspended at the 10 ms timeout  *)
(*                   of iteration i                                        *)
(*   pc = "storing"  awaiting the add request of storeImageData            *)
(*   pc = "done"     returned; pc = "failed": the catch block ran          *)
(***************************************************************************)
NoFile == [type |-> "none", size |-> 0]

NewRun(type, file, image) ==
  [type |-> type, pc |-> "loading", file |-> file, image |-> image,
   selectedSizes |-> <<>>, format |-> "png", i |-> 0]

(***************************************************************************)
(* processFile, up to its first await: validateFile, then                  *)
(* createImageFromFile is started.                                         *)
(***************************************************************************)
ProcessFile(file) ==
  /\ bound
  /\ IF ~validateFile(copy, file)
     THEN /\ Step([kind |-> "file", file |-> file], showError, NoArchive, NoManifest)
          /\ UNCHANGED <<runs, dom>>
     ELSE /\ Len(runs) < MaxRuns
          /\ runs' = Append(runs, NewRun("upload", file, Len(runs) + 1))
          /\ dom' = showLoading(dom)
          /\ Step([kind |-> "file", file |-> file], "none", NoArchive, NoManifest)
  /\ UNCHANGED <<ac, sw, swOut, copy, bound, db, session, checked, formatRadio, uiChanges,
                 jsZipLoaded, currentImage, generatedIcons, zipJob, iconsStore,
                 settingsStore, pendingPuts, fit>>

(***************************************************************************)
(* generateTextIcon, up to image.src = canvas.toDataURL(): the text is     *)
(* validated, the master image drawn on a local canvas (part_000 sizes the *)
(* font with fitTextToCanvas, see SpecFit), and the image's load is        *)
(* awaited.                                                                *)
(***************************************************************************)
GenerateTextIcon(raw) ==
  /\ bound
  /\ IF ~textAccepted(raw)
     THEN /\ Step([kind |-> "text", text |-> raw], showError, NoArchive, NoManifest)
          /\ UNCHANGED <<runs, dom>>
     ELSE /\ Len(runs) < MaxRuns
          /\ runs' = Append(runs, NewRun("text", NoFile, Len(runs) + 1))
          /\ dom' = showLoading(dom)
          /\ Step([kind |-> "text", text |-> raw], "none", NoArchive, NoManifest)
  /\ UNCHANGED <<ac, sw, swOut, copy, bound, db, session, checked, formatRadio, uiChanges,
                 jsZipLoaded, currentImage, generatedIcons, zipJob, iconsStore,
                 settingsStore, pendingPuts, fit>>

(***************************************************************************)
(* generateIcons.  It reads the selection once, replaces the list by a new *)
(* empty one, and then, in each iteration, pushes onto whatever list       *)
(* this.generatedIcons is at that time.                                    *)
(***************************************************************************)
\* generateIcons reading the controls anew in every iteration
pushIconLive(list, run, i) ==
  IF i + 1 \in DOMAIN SelectedSizes
  THEN Append(list, Artifact(run.image, SelectedSizes[i + 1], SelectedFormat, run.type))
  ELSE list

pushIcon(list, run, i) ==
  Append(list, Artifact(run.image, run.selectedSizes[i + 1], run.format, run.type))

\* the list after generateIcons' entry and first iteration, for the run entering it
generateIconsEntry(run) ==
  IF run.selectedSizes = <<>> THEN <<>> ELSE pushIcon(<<>>, run, 0)

\* what follows `await this.generateIcons(...)` in the caller: showPreview, then
\* storeImageData (upload only, and only with an open database), then the success
\* notification
afterGenerate(run) ==
  IF run.type = "upload" /\ db = "open"
  THEN [run EXCEPT !.pc = "storing"]
  ELSE [run EXCEPT !.pc = "done"]

GenerationReturns(r, run, list) ==
  /\ runs' = [runs EXCEPT ![r] = afterGenerate(run)]
  /\ dom' = IF afterGenerate(run).pc = "done"
            THEN hideLoading(showPreview(dom, list))
            ELSE showPreview(dom, list)
  /\ Step(NoEvent,
          IF afterGenerate(run).pc = "done" THEN showSuccess ELSE "none",
          NoArchive, NoManifest)

(***************************************************************************)
(* The image loaded: this.currentImage = image; generateIcons is entered   *)
(* and runs to its first timeout (or returns, with nothing selected).      *)
(***************************************************************************)
ImageLoaded(r) ==
  /\ r \in DOMAIN runs
  /\ runs[r].pc = "loading"
  /\ currentImage' = runs[r].image
  /\ LET run == [runs[r] EXCEPT !.selectedSizes = SelectedSizes,
                                !.format = SelectedFormat,
                                !.i = 0,
                                !.pc = "gen"]
     IN  /\ generatedIcons' = generateIconsEntry(run)
         /\ IF run.selectedSizes = <<>>
            THEN GenerationReturns(r, run, <<>>)
            ELSE /\ runs' = [runs EXCEPT ![r] = run]
                 /\ UNCHANGED dom
                 /\ Step(NoEvent, "none", NoArchive, NoManifest)
  /\ UNCHANGED <<ac, sw, swOut, copy, bound, db, session, checked, formatRadio, uiChanges,
                 jsZipLoaded, zipJob, iconsStore, settingsStore, pendingPuts, fit>>

(***************************************************************************)
(* createImageFromFile rejected (reader.onerror / img.onerror): the catch  *)
(* block of processFile shows the error.  The text path sets no onerror.   *)
(***************************************************************************)
ImageFailed(r) ==
  /\ r \in DOMAIN runs
  /\ runs[r].pc = "loading"
  /\ runs[r].type = "upload"
  /\ runs' = [runs EXCEPT ![r].pc = "failed"]
  /\ dom' = hideLoading(dom)
  /\ Step(NoEvent, showError, NoArchive, NoManifest)
  /\ UNCHANGED <<ac, sw, swOut, copy, bound, db, session, checked, formatRadio, uiChanges,
                 jsZipLoaded, currentImage, generatedIcons, zipJob, iconsStore,
                 settingsStore, pendingPuts, fit>>

(***************************************************************************)
(* The 10 ms timeout of iteration i fired: i++, and either the next        *)
(* artifact is pushed or generateIcons returns to its caller.              *)
(***************************************************************************)
GenerateResume(r) ==
  /\ r \in DOMAIN runs
  /\ runs[r].pc = "gen"
  /\ LET run == [runs[r] EXCEPT !.i = @ + 1]
     IN  IF run.i < Len(run.selectedSizes)
         THEN /\ generatedIcons' = pushIcon(generatedIcons, run, run.i)
              /\ runs' = [runs EXCEPT ![r] = run]
              /\ UNCHANGED dom
              /\ Step(NoEvent, "none", NoArchive, NoManifest)
         ELSE /\ GenerationReturns(r, run, generatedIcons)
              /\ UNCHANGED generatedIcons
  /\ UNCHANGED <<ac, sw, swOut, copy, bound, db, session, checked, formatRadio, uiChanges,
                 jsZipLoaded, currentImage, zipJob, iconsStore, settingsStore,
                 pendingPuts, fit>>

(***************************************************************************)
(* storeImageData's add request completed: with success the record is in  *)
(* the store, with an error it is only logged; processFile then shows its  *)
(* success notification either way.                                        *)
(***************************************************************************)
imageRecord(run) == [type |-> run.file.type, size |-> run.file.size]

StoreImageDone(r, ok) ==
  /\ r \in DOMAIN runs
  /\ runs[r].pc = "storing"
  /\ iconsStore' = IF ok THEN Append(iconsStore, imageRecord(runs[r])) ELSE iconsStore
  /\ runs' = [runs EXCEPT ![r].pc = "done"]
  /\ dom' = hideLoading(dom)
  /\ Step([kind |-> "stored", run |-> r, ok |-> ok], showSuccess, NoArchive, NoManifest)
  /\ UNCHANGED <<ac, sw, swOut, copy, bound, db, session, checked, formatRadio, uiChanges,
                 jsZipLoaded, currentImage, generatedIcons, zipJob, settingsStore,
                 pendingPuts, fit>>

(***************************************************************************)
(* An iteration of generateIcons throws (createElement, getContext,        *)
(* drawImage or toDataURL): either the first one, right after the image    *)
(* loaded and the list was replaced, or the one after a timeout.  On the   *)
(* upload path the exception reaches processFile's catch block, which      *)
(* shows the error.  On the text path generateIcons is awaited inside the  *)
(* async image.onload callback, which has no try/catch and lies outside    *)
(* generateTextIcon's: the callback's promise rejects unobserved, and      *)
(* nothing is shown (pc = "aborted").                                      *)
(***************************************************************************)
GenerateThrows(r) ==
  /\ r \in DOMAIN runs
  /\ \/ /\ runs[r].pc = "loading"
        /\ SelectedSizes # <<>>
        /\ currentImage' = runs[r].image
        /\ generatedIcons' = <<>>
     \/ /\ runs[r].pc = "gen"
        /\ runs[r].i + 1 < Len(runs[r].selectedSizes)
        /\ UNCHANGED <<currentImage, generatedIcons>>
  /\ runs' = [runs EXCEPT ![r].pc = IF runs[r].type = "upload" THEN "failed"
                                                               ELSE "aborted"]
  /\ dom' = IF runs[r].type = "upload" THEN hideLoading(dom) ELSE dom
  /\ Step([kind |-> "throw", run |-> r],
          IF runs[r].type = "upload" THEN showError ELSE "none",
          NoArchive, NoManifest)
  /\ UNCHANGED <<ac, sw, swOut, copy, bound, db, session, checked, formatRadio, uiChanges,
                 jsZipLoaded, zipJob, iconsStore, settingsStore, pendingPuts, fit>>

(***************************************************************************)
(* downloadAllIcons.  The archive under construction is JSZip's file table: *)
(* zip.file(name, data) replaces the entry of that name if there is one.   *)
(* The loop re-reads this.generatedIcons and its length in every           *)
(* iteration.  The awaits on fetch and blob lie between reading the icon   *)
(* and adding it; nothing is read from the object in between, so reading   *)
(* and adding are one step here, suspended at the 50 ms timeout.           *)
(***************************************************************************)
ManifestName == <<"manifest", 0, 0, "json">>

zipFile(zip, name, data) ==
  IF \E k \in DOMAIN zip : zip[k].name = name
  THEN [k \in DOMAIN zip |-> IF zip[k].name = name
                             THEN [name |-> name, data |-> data]
                             ELSE zip[k]]
  ELSE Append(zip, [name |-> name, data |-> data])

zipManifest(list, chk, radio) ==
  [total_icons |-> Len(list),
   format |-> getSelectedFormat(radio),
   sizes |-> getSelectedSizes(chk),
   icons |-> [k \in DOMAIN list |->
                [filename |-> list[k].filename,
                 size |-> <<list[k].size, list[k].size>>,
                 format |-> list[k].format,
                 type |-> list[k].type]]]

\* downloadAllIcons without the check for the JSZip library
DownloadAllIconsUnchecked ==
  /\ bound
  /\ IF Len(generatedIcons) = 0
     THEN /\ Step([kind |-> "download"], showError, NoArchive, NoManifest)
          /\ UNCHANGED <<zipJob, dom>>
     ELSE /\ zipJob = NoJob
          /\ zipJob' = [pc |-> "zipping", i |-> 0,
                        zip |-> zipFile(<<>>, generatedIcons[1].filename,
                                        generatedIcons[1].dataUrl)]
          /\ dom' = showLoading(dom)
          /\ Step([kind |-> "download"], "none", NoArchive, NoManifest)
  /\ UNCHANGED <<ac, sw, swOut, copy, bound, db, session, checked, formatRadio, uiChanges,
                 jsZipLoaded, currentImage, generatedIcons, runs, iconsStore,
                 settingsStore, pendingPuts, fit>>

DownloadAllIcons ==
  /\ bound
  /\ IF Len(generatedIcons) = 0 \/ ~jsZipLoaded
     THEN /\ Step([kind |-> "download"], showError, NoArchive, NoManifest)
          /\ UNCHANGED <<zipJob, dom>>
     ELSE /\ zipJob = NoJob
          /\ zipJob' = [pc |-> "zipping", i |-> 0,
                        zip |-> zipFile(<<>>, generatedIcons[1].filename,
                                        generatedIcons[1].dataUrl)]
          /\ dom' = showLoading(dom)
          /\ Step([kind |-> "download"], "none", NoArchive, NoManifest)
  /\ UNCHANGED <<ac, sw, swOut, copy, bound, db, session, checked, formatRadio, uiChanges,
                 jsZipLoaded, currentImage, generatedIcons, runs, iconsStore,
                 settingsStore, pendingPuts, fit>>

\* the 50 ms timeout fired: i++, and either the next icon is added or the manifest
\* is written, the archive generated and handed to the browser
ZipResume ==
  /\ zipJob.pc = "zipping"
  /\ LET i == zipJob.i + 1
     IN  IF i < Len(generatedIcons)
         THEN /\ zipJob' = [zipJob EXCEPT !.i = i,
                                          !.zip = zipFile(@, generatedIcons[i + 1].filename,
                                                          generatedIcons[i + 1].dataUrl)]
              /\ UNCHANGED dom
              /\ Step(NoEvent, "none", NoArchive, NoManifest)
         ELSE /\ zipJob' = NoJob
              /\ dom' = hideLoading(dom)
              /\ Step(NoEvent, showSuccess,
                      [made |-> TRUE,
                       files |-> zipFile(zipJob.zip, ManifestName,
                                         zipManifest(generatedIcons, checked,
                                                     formatRadio))],
                      NoManifest)
  /\ UNCHANGED <<ac, sw, swOut, copy, bound, db, session, checked, formatRadio, uiChanges,
                 jsZipLoaded, currentImage, generatedIcons, runs, iconsStore,
                 settingsStore, pendingPuts, fit>>

\* an awaited fetch / blob / generateAsync rejected: the catch block shows the error
ZipFailed ==
  /\ zipJob.pc = "zipping"
  /\ zipJob' = NoJob
  /\ dom' = hideLoading(dom)
  /\ Step([kind |-> "zipfail"], showError, NoArchive, NoManifest)
  /\ UNCHANGED <<ac, sw, swOut, copy, bound, db, session, checked, formatRadio, uiChanges,
                 jsZipLoaded, currentImage, generatedIcons, runs, iconsStore,
                 settingsStore, pendingPuts, fit>>

(***************************************************************************)
(* downloadSingle, from the click on the download button of preview item   *)
(* index (data-index, counted from 0): the icon is read from               *)
(* this.generatedIcons at the click; with none at that index the handler   *)
(* returns.  The fetch of its data URL then succeeds, and the icon is      *)
(* handed to the browser, or fails, and the error is shown.                *)
(***************************************************************************)
DownloadSingle(index, ok) ==
  /\ bound
  /\ index + 1 \in DOMAIN dom.previewGrid
  /\ IF index + 1 \in DOMAIN generatedIcons
     THEN Step([kind |-> "single", index |-> index, item |-> dom.previewGrid[index + 1],
                downloaded |-> IF ok THEN <<generatedIcons[index + 1]>> ELSE <<>>],
               IF ok THEN showSuccess ELSE showError, NoArchive, NoManifest)
     ELSE Step([kind |-> "single", index |-> index, item |-> dom.previewGrid[index + 1],
                downloaded |-> <<>>],
               "none", NoArchive, NoManifest)
  /\ UNCHANGED <<dom, ac, sw, swOut, copy, bound, db, session, checked, formatRadio, uiChanges,
                 jsZipLoaded, currentImage, generatedIcons, runs, zipJob, iconsStore,
                 settingsStore, pendingPuts, fit>>

(***************************************************************************)
(* generatePWAManifest: synchronous.  The manifest is kept with the list   *)
(* it was made from.                                                       *)
(***************************************************************************)
\* generatePWAManifest with > for >= in its filter
pwaIconsAbove72(list) ==
  LET kept == SelectSeq(list, LAMBDA icon : icon.size > 72)
  IN  [k \in DOMAIN kept |->
         [src |-> kept[k].filename,
          sizes |-> <<kept[k].size, kept[k].size>>,
          type |-> <<"image", kept[k].format>>,
          purpose |-> IF kept[k].size >= 192 THEN "maskable any" ELSE "any"]]

pwaIcons(list) ==
  LET kept == SelectSeq(list, LAMBDA icon : icon.size >= 72)
  IN  [k \in DOMAIN kept |->
         [src |-> kept[k].filename,
          sizes |-> <<kept[k].size, kept[k].size>>,
          type |-> <<"image", kept[k].format>>,
          purpose |-> IF kept[k].size >= 192 THEN "maskable any" ELSE "any"]]

GeneratePWAManifest ==
  /\ bound
  /\ IF Len(generatedIcons) = 0
     THEN Step(NoEvent, showError, NoArchive, NoManifest)
     ELSE Step(NoEvent, showSuccess, NoArchive,
               [made |-> TRUE, from |-> generatedIcons,
                icons |-> pwaIcons(generatedIcons)])
  /\ UNCHANGED <<dom, ac, sw, swOut, copy, bound, db, session, checked, formatRadio, uiChanges,
                 jsZipLoaded, currentImage, generatedIcons, runs, zipJob,
                 iconsStore, settingsStore, pendingPuts, fit>>

(***************************************************************************)
(* A change event of a size checkbox or a format radio: updateSettings     *)
(* reads the selection and storeSettings issues the put (with no database  *)
(* it returns at once); 'Settings saved' is shown when storeSettings       *)
(* returns, which it does also after a failed put, the error being caught  *)
(* inside it.                                                              *)
(***************************************************************************)
\* the settings object with the default format in place of the selected one
settingsOfDefaultFormat(chk, radio) ==
  [key |-> "userSettings",
   selectedSizes |-> getSelectedSizes(chk),
   outputFormat |-> "png"]

settingsOf(chk, radio) ==
  [key |-> "userSettings",
   selectedSizes |-> getSelectedSizes(chk),
   outputFormat |-> getSelectedFormat(radio)]

UpdateSettings(chk, radio) ==
  /\ bound
  /\ uiChanges < MaxUiChanges
  /\ uiChanges' = uiChanges + 1
  /\ IF db = "open"
     THEN /\ Len(pendingPuts) < MaxPending
          /\ pendingPuts' = Append(pendingPuts, settingsOf(chk, radio))
          /\ Step(NoEvent, "none", NoArchive, NoManifest)
     ELSE /\ Step(NoEvent, showFeedback, NoArchive, NoManifest)
          /\ UNCHANGED pendingPuts

ToggleSize(v) ==
  /\ checked' = IF v \in checked THEN checked \ {v} ELSE checked \cup {v}
  /\ UpdateSettings(checked', formatRadio)
  /\ UNCHANGED <<dom, ac, sw, swOut, copy, bound, db, session, formatRadio, jsZipLoaded, currentImage,
                 generatedIcons, runs, zipJob, iconsStore, settingsStore, fit>>

SelectFormat(f) ==
  /\ f # formatRadio
  /\ formatRadio' = f
  /\ UpdateSettings(checked, f)
  /\ UNCHANGED <<dom, ac, sw, swOut, copy, bound, db, session, checked, jsZipLoaded, currentImage,
                 generatedIcons, runs, zipJob, iconsStore, settingsStore, fit>>

SettingsPutDone(ok) ==
  /\ pendingPuts # <<>>
  /\ settingsStore' = IF ok THEN Head(pendingPuts) ELSE settingsStore
  /\ pendingPuts' = Tail(pendingPuts)
  /\ Step([kind |-> "put", ok |-> ok], showFeedback, NoArchive, NoManifest)
  /\ UNCHANGED <<dom, ac, sw, swOut, copy, bound, db, session, checked, formatRadio, uiChanges,
                 jsZipLoaded, currentImage, generatedIcons, runs, zipJob,
                 iconsStore, fit>>

(***************************************************************************)
(* applySettings, on the checkboxes and on the radios.                     *)
(***************************************************************************)
\* applySettings that checks the stored sizes and unchecks nothing
applySizesCheckOnly(settings, chk) ==
  chk \cup {v \in Range(Checkboxes) : v \in Range(settings.selectedSizes)}

applySizes(settings, chk) ==
  IF Len(settings.selectedSizes) > 0
  THEN {v \in Range(Checkboxes) : v \in Range(settings.selectedSizes)}
  ELSE chk

applyFormat(settings, radio) ==
  IF settings.outputFormat \in Formats THEN settings.outputFormat ELSE radio

(***************************************************************************)
(* A page load: the constructor and init().  The controls come up as the   *)
(* markup has them (markupChecked, markupRadio: index.html is not among    *)
(* the sources).  If indexedDB.open fails, init's catch shows the error    *)
(* and neither bindEventListeners nor loadPersistedData is reached.        *)
(* Otherwise loadPersistedData gets 'userSettings' and, if the get         *)
(* succeeds and finds a record, applies it.  A put the previous page had   *)
(* not completed is lost with that page.                                   *)
(***************************************************************************)
MaxSessions == 3

PageLoad(markupChecked, markupRadio, opened, got) ==
  /\ session < MaxSessions
  /\ session' = session + 1
  /\ dom' = NewDom
  /\ uiChanges' = 0
  /\ currentImage' = 0
  /\ generatedIcons' = <<>>
  /\ runs' = <<>>
  /\ zipJob' = NoJob
  /\ pendingPuts' = <<>>
  /\ db' = IF opened THEN "open" ELSE "null"
  /\ bound' = opened
  /\ IF opened /\ got /\ settingsStore # NoSettings
     THEN /\ checked' = applySizes(settingsStore, markupChecked)
          /\ formatRadio' = applyFormat(settingsStore, markupRadio)
     ELSE /\ checked' = markupChecked
          /\ formatRadio' = markupRadio
  /\ Step([kind |-> "load", opened |-> opened, got |-> got,
           markupChecked |-> markupChecked, markupRadio |-> markupRadio],
          IF opened THEN "none" ELSE showError, NoArchive, NoManifest)
  /\ UNCHANGED <<ac, sw, swOut, copy, jsZipLoaded, iconsStore, settingsStore, fit>>

(***************************************************************************)
(* fitTextToCanvas (part_000 only), one action per loop iteration.         *)
(*                                                                         *)
(* Lengths are in tenths of a pixel, so that the defaults 0.8 x mid and    *)
(* 0.2 x mid are integers.  measureText is a function of the font size for *)
(* a given text and font: the frame remembers what it returned for each    *)
(* size probed (measured), and a size probed again measures the same.      *)
(* Undefined stands for a metrics object without actualBoundingBoxAscent / *)
(* actualBoundingBoxDescent; whether the browser has them is fixed for the *)
(* call (gap).                                                             *)
(***************************************************************************)
baseSize == 512

padding == 48

Undefined == -1

\* a ?? b
Coalesce(a, b) == IF a = Undefined THEN b ELSE a

Floor2(n) == n \div 2

\* what measureText may return at one size: the text as wide, or as tall, as the
\* inset box, or one tenth more
Measurements(gap) ==
  IF gap
  THEN {[width |-> w, ascent |-> Undefined, descent |-> Undefined] :
          w \in {10 * (baseSize - 2 * padding), 10 * (baseSize - 2 * padding) + 1}}
  ELSE {[width |-> 10 * (baseSize - 2 * padding), ascent |-> 3328, descent |-> 832],
        [width |-> 10 * (baseSize - 2 * padding) + 1, ascent |-> 3328, descent |-> 832],
        [width |-> 10 * (baseSize - 2 * padding), ascent |-> 3329, descent |-> 832]}

\* the test of the loop body: width <= maxW && height <= maxH
fitsBox(metrics, mid, maxW, maxH) ==
  LET ascent == Coalesce(metrics.ascent, mid * 8)
      descent == Coalesce(metrics.descent, mid * 2)
      height == ascent + descent
  IN  metrics.width <= 10 * maxW /\ height <= 10 * maxH

\* buildCanvasFont's size: Math.max(12, Math.floor(sizePx))
buildCanvasFont(sizePx) == IF sizePx > 12 THEN sizePx ELSE 12

FitTexts == {t \in Texts : trim(t) = t /\ textAccepted(t)}

FitStart(text, gap) ==
  /\ copy = "part_000"
  /\ fit.pc \in {"idle", "done"}
  /\ fit' = [pc |-> "search", text |-> text, gap |-> gap,
             maxW |-> baseSize - 2 * padding, maxH |-> baseSize - 2 * padding,
             lo |-> 12, hi |-> 420, best |-> 12, i |-> 0,
             measured |-> <<>>]
  /\ UNCHANGED <<dom, ac, sw, swOut, copy, bound, db, session, checked, formatRadio, uiChanges,
                 jsZipLoaded, currentImage, generatedIcons, runs, zipJob,
                 iconsStore, settingsStore, pendingPuts, evt, notification,
                 archive, pwaManifest>>

\* the loop body with best = mid hoisted out of the if
fitIterationBestAlways(f, metrics) ==
  LET mid == Floor2(f.lo + f.hi)
  IN  IF fitsBox(metrics, mid, f.maxW, f.maxH)
      THEN [f EXCEPT !.best = mid, !.lo = mid + 1, !.i = @ + 1,
                     !.measured = (mid :> metrics) @@ @]
      ELSE [f EXCEPT !.best = mid, !.hi = mid - 1, !.i = @ + 1,
                     !.measured = (mid :> metrics) @@ @]

\* the loop body with lo = mid in place of lo = mid + 1
fitIterationLoAtMid(f, metrics) ==
  LET mid == Floor2(f.lo + f.hi)
  IN  IF fitsBox(metrics, mid, f.maxW, f.maxH)
      THEN [f EXCEPT !.best = mid, !.lo = mid, !.i = @ + 1,
                     !.measured = (mid :> metrics) @@ @]
      ELSE [f EXCEPT !.hi = mid - 1, !.i = @ + 1,
                     !.measured = (mid :> metrics) @@ @]

\* one iteration of the loop
fitIteration(f, metrics) ==
  LET mid == Floor2(f.lo + f.hi)
  IN  IF fitsBox(metrics, mid, f.maxW, f.maxH)
      THEN [f EXCEPT !.best = mid, !.lo = mid + 1, !.i = @ + 1,
                     !.measured = (mid :> metrics) @@ @]
      ELSE [f EXCEPT !.hi = mid - 1, !.i = @ + 1,
                     !.measured = (mid :> metrics) @@ @]

FitProbe(m) ==
  /\ fit.pc = "search"
  /\ fit.i < 14
  /\ LET mid == Floor2(fit.lo + fit.hi)
     IN  /\ IF mid \in DOMAIN fit.measured
            THEN m = fit.measured[mid]
            ELSE m \in Measurements(fit.gap)
         /\ fit' = fitIteration(fit, m)
  /\ UNCHANGED <<dom, ac, sw, swOut, copy, bound, db, session, checked, formatRadio, uiChanges,
                 jsZipLoaded, currentImage, generatedIcons, runs, zipJob,
                 iconsStore, settingsStore, pendingPuts, evt, notification,
                 archive, pwaManifest>>

\* return best; generateTextIcon then sets the font with buildCanvasFont
FitReturn ==
  /\ fit.pc = "search"
  /\ ~(fit.i < 14)
  /\ fit' = [pc |-> "done", text |-> fit.text, gap |-> fit.gap,
             maxW |-> fit.maxW, maxH |-> fit.maxH,
             measured |-> fit.measured,
             fittedPx |-> fit.best,
             fontPx |-> buildCanvasFont(fit.best)]
  /\ UNCHANGED <<dom, ac, sw, swOut, copy, bound, db, session, checked, formatRadio, uiChanges,
                 jsZipLoaded, currentImage, generatedIcons, runs, zipJob,
                 iconsStore, settingsStore, pendingPuts, evt, notification,
                 archive, pwaManifest>>

(***************************************************************************)
(* generateTextIcon's reading of the font weight (part_000 only):          *)
(*   parseInt(document.getElementById('fontWeight')?.value || '700', 10)   *)
(* then Math.min(900, Math.max(100, Math.round(w / 100) * 100)).  The      *)
(* control is a slider, whose value is the decimal text of a number; an    *)
(* absent control and an empty value both read as '700'.  Math.round(x) is *)
(* floor(x + 0.5), and \div rounds down.                                   *)
(***************************************************************************)
MaxWeightInput == 1150

WeightInputs ==
  {[kind |-> "absent"], [kind |-> "empty"]}
    \cup {[kind |-> "value", n |-> n] : n \in (0 - MaxWeightInput)..MaxWeightInput}

parseWeight(input) == IF input.kind = "value" THEN input.n ELSE 700

Min2(a, b) == IF a < b THEN a ELSE b

Max2(a, b) == IF a > b THEN a ELSE b

\* the rounding with Math.floor in place of Math.round
roundWeightDown(w) == Min2(900, Max2(100, (w \div 100) * 100))

roundWeight(w) == Min2(900, Max2(100, ((w + 50) \div 100) * 100))

ReadFontWeight(input) ==
  /\ copy = "part_000"
  /\ bound
  /\ Step([kind |-> "weight", input |-> input,
           fontWeight |-> roundWeight(parseWeight(input))],
          "none", NoArchive, NoManifest)
  /\ UNCHANGED <<dom, ac, sw, swOut, copy, bound, db, session, checked, formatRadio, uiChanges,
                 jsZipLoaded, currentImage, generatedIcons, runs, zipJob,
                 iconsStore, settingsStore, pendingPuts, fit>>

(***************************************************************************)
(* The service worker (part_002, from line 51).  It runs in its own        *)
(* context; each action is one turn of it.                                 *)
(*                                                                         *)
(* A URL is its origin, its path and the extension its path ends with.     *)
(* The Cache Storage is the sequence of the caches in the order they were  *)
(* created (caches.keys(), and the order caches.match searches them);      *)
(* a cache maps URLs to responses.                                         *)
(***************************************************************************)
MaxFetches == 2

MaxMessages == 2

STATIC_CACHE == "iconforge-static-v1"

DYNAMIC_CACHE == "iconforge-dynamic-v1"

CACHE_NAME == "iconforge-v1.0.0"

OLD_CACHE == "iconforge-static-v0"

SelfOrigin == "self"

FontsOrigin == "https://fonts.googleapis.com"

Url(origin, path, ext) == [origin |-> origin, path |-> path, ext |-> ext]

STATIC_ASSETS == <<"/", "/index.html", "/styles.css", "/script.js", "/manifest.json">>

Urls ==
  {Url(SelfOrigin, "/", ""), Url(SelfOrigin, "/index.html", "html"),
   Url(SelfOrigin, "/styles.css", "css"), Url(SelfOrigin, "/script.js", "js"),
   Url(SelfOrigin, "/manifest.json", "json"), Url(SelfOrigin, "/icon.png", "png"),
   Url(FontsOrigin, "/css2", "")}

\* a path resolved against the worker's location
resolveUrl(path) ==
  IF \E u \in Urls : u.origin = SelfOrigin /\ u.path = path
  THEN CHOOSE u \in Urls : u.origin = SelfOrigin /\ u.path = path
  ELSE Url(SelfOrigin, path, "")

\* the GET requests a controlled page makes: navigations ask for text/html
Request(url) ==
  [url |-> url,
   accept |-> IF url.ext \in {"", "html"} /\ url.origin = SelfOrigin
              THEN "text/html" ELSE "*/*",
   mode |-> IF url.ext \in {"", "html"} /\ url.origin = SelfOrigin
            THEN "navigate" ELSE "no-cors"]

Requests == {Request(u) : u \in Urls}

NoResponse == [status |-> "none"]

NetBodies == {"v1", "v2"}

offlinePage == [status |-> "ok", body |-> "offline"]

\* request.url.includes(asset): every absolute URL contains "/"
urlIncludes(url, asset) == asset = "/" \/ url.path = asset

isStaticAsset(request) ==
  IF request.url.origin = SelfOrigin
  THEN request.url.ext \in {"css", "js", "html", "json"}
  ELSE \E k \in DOMAIN STATIC_ASSETS : urlIncludes(request.url, STATIC_ASSETS[k])

isRuntimeCacheable(request) ==
  request.url.origin \in {"https://fonts.googleapis.com", "https://fonts.gstatic.com",
                          "https://unpkg.com"}

\* caches.open(name): the cache is created if there is none of that name
cachesOpen(cs, name) ==
  IF \E k \in DOMAIN cs : cs[k].name = name
  THEN cs
  ELSE Append(cs, [name |-> name, entries |-> <<>>])

\* cache.put on the cache of that name
cachePut(cs, name, url, response) ==
  LET opened == cachesOpen(cs, name)
  IN  [k \in DOMAIN opened |->
         IF opened[k].name = name
         THEN [opened[k] EXCEPT !.entries = (url :> response) @@ @]
         ELSE opened[k]]

\* caches.match(request): the first cache, in creation order, that has the URL
cachesMatch(cs, url) ==
  LET hits == {k \in DOMAIN cs : url \in DOMAIN cs[k].entries}
  IN  IF hits = {}
      THEN NoResponse
      ELSE cs[CHOOSE k \in hits : \A j \in hits : k <= j].entries[url]

\* cache.match(request) on the cache of that name
cacheMatch(cs, name, url) ==
  LET hits == {k \in DOMAIN cs : cs[k].name = name /\ url \in DOMAIN cs[k].entries}
  IN  IF hits = {} THEN NoResponse ELSE cs[CHOOSE k \in hits : TRUE].entries[url]

\* blob.size of a response's body
blobSize(response) ==
  CASE response.body = "v1" -> 1
    [] response.body = "v2" -> 2
    [] OTHER -> 3

RECURSIVE sumSizes(_, _)
sumSizes(entries, keys) ==
  IF keys = {}
  THEN 0
  ELSE LET u == CHOOSE u \in keys : TRUE
       IN  blobSize(entries[u]) + sumSizes(entries, keys \ {u})

RECURSIVE totalSize(_)
totalSize(cs) ==
  IF cs = <<>>
  THEN 0
  ELSE sumSizes(Head(cs).entries, DOMAIN Head(cs).entries) + totalSize(Tail(cs))

NoOutput == [kind |-> "none"]

RemoveAt(s, k) == [j \in 1..(Len(s) - 1) |-> IF j < k THEN s[j] ELSE s[j + 1]]

\* the worker right after registration: the install event has been dispatched and
\* its handler's promise is pending; a cache of an earlier version exists
NewWorker ==
  [phase |-> "installing",
   caches |-> <<[name |-> OLD_CACHE,
                 entries |-> (Url(SelfOrigin, "/index.html", "html")
                                :> [status |-> "ok", body |-> "v1"])]>>,
   frames |-> <<>>,
   toPage |-> <<>>,
   fetches |-> 0,
   messages |-> 0]

SwStep(worker, output) ==
  /\ sw' = worker
  /\ swOut' = output
  /\ UNCHANGED <<pageVars, evt, notification, archive, pwaManifest>>

(***************************************************************************)
(* install: caches.open(STATIC_CACHE), cache.addAll(STATIC_ASSETS) (which  *)
(* adds all or nothing), skipWaiting; the .catch at the end of the chain   *)
(* logs a failure and fulfils the promise handed to waitUntil.             *)
(***************************************************************************)
RECURSIVE cacheAddAll(_, _, _)
cacheAddAll(cs, name, paths) ==
  IF paths = <<>>
  THEN cs
  ELSE cacheAddAll(cachePut(cs, name, resolveUrl(Head(paths)),
                            [status |-> "ok", body |-> "v1"]),
                   name, Tail(paths))

\* the install chain without its .catch: a failure rejects the waitUntil promise
installOutcomeRejecting(worker, precached) ==
  IF precached
  THEN [worker EXCEPT !.phase = "installed",
                      !.caches = cacheAddAll(cachesOpen(@, STATIC_CACHE), STATIC_CACHE,
                                             STATIC_ASSETS)]
  ELSE [worker EXCEPT !.phase = "redundant",
                      !.caches = cachesOpen(@, STATIC_CACHE)]

installOutcome(worker, precached) ==
  IF precached
  THEN [worker EXCEPT !.phase = "installed",
                      !.caches = cacheAddAll(cachesOpen(@, STATIC_CACHE), STATIC_CACHE,
                                             STATIC_ASSETS)]
  ELSE [worker EXCEPT !.phase = "installed",
                      !.caches = cachesOpen(@, STATIC_CACHE)]

InstallDone(precached) ==
  /\ sw.phase = "installing"
  /\ SwStep(installOutcome(sw, precached),
            [kind |-> "install", precached |-> precached,
             fulfilled |-> installOutcome(sw, precached).phase = "installed"])

(***************************************************************************)
(* activate: the caches of other names are deleted, the clients claimed.   *)
(***************************************************************************)
Activate ==
  /\ sw.phase = "installed"
  /\ SwStep([sw EXCEPT !.phase = "activated",
                       !.caches = SelectSeq(@, LAMBDA c :
                                    c.name \in {STATIC_CACHE, DYNAMIC_CACHE, CACHE_NAME})],
            [kind |-> "activate"])

(***************************************************************************)
(* fetch: a GET request of a controlled page.  The handler chosen runs to  *)
(* its network fetch (handleStaticAsset answers a cache hit at once).      *)
(* handleRuntimeCache opens the dynamic cache, looks the request up in it, *)
(* starts the fetch, and answers with the cached response if there is one. *)
(***************************************************************************)
Respond(request, source, response, net) ==
  [kind |-> "response", request |-> request, source |-> source,
   response |-> response, net |-> net]

\* the dispatch with the test for runtime-cacheable requests first
handlerOfRuntimeFirst(request) ==
  IF isRuntimeCacheable(request) THEN "runtime"
  ELSE IF isStaticAsset(request) THEN "static"
  ELSE "networkFirst"

handlerOf(request) ==
  IF isStaticAsset(request) THEN "static"
  ELSE IF isRuntimeCacheable(request) THEN "runtime"
  ELSE "networkFirst"

Fetch(request) ==
  /\ sw.phase = "activated"
  /\ sw.fetches < MaxFetches
  /\ LET counted == [sw EXCEPT !.fetches = @ + 1]
         cached == cachesMatch(sw.caches, request.url)
         opened == cachesOpen(sw.caches, DYNAMIC_CACHE)
         stale == cacheMatch(opened, DYNAMIC_CACHE, request.url)
     IN  CASE handlerOf(request) = "static" ->
                IF cached # NoResponse
                THEN SwStep(counted, Respond(request, "cache", cached, "none"))
                ELSE SwStep([counted EXCEPT !.frames =
                               Append(@, [kind |-> "static", request |-> request])],
                            NoOutput)
           [] handlerOf(request) = "runtime" ->
                SwStep([counted EXCEPT !.caches = opened,
                                       !.frames = Append(@, [kind |-> "runtime",
                                                             request |-> request,
                                                             cached |-> stale])],
                       IF stale # NoResponse
                       THEN Respond(request, "cache", stale, "none")
                       ELSE NoOutput)
           [] OTHER ->
                SwStep([counted EXCEPT !.frames =
                          Append(@, [kind |-> "networkFirst", request |-> request])],
                       NoOutput)

(***************************************************************************)
(* The network fetch of a suspended handler settles: with an ok response,  *)
(* with a response that is not ok, or with a failure.                      *)
(***************************************************************************)
\* handleStaticAsset without the test of networkResponse.ok
staticAssetSettlesCachingAll(worker, request, outcome, response) ==
  CASE outcome \in {"ok", "notok"} ->
         [worker |-> [worker EXCEPT !.caches =
                        cachePut(@, STATIC_CACHE, request.url, response)],
          out |-> Respond(request, "network", response, outcome)]
    [] OTHER ->
         [worker |-> worker,
          out |-> IF request.accept = "text/html"
                  THEN Respond(request, "offline", offlinePage, outcome)
                  ELSE Respond(request, "error", NoResponse, outcome)]

staticAssetSettles(worker, request, outcome, response) ==
  CASE outcome = "ok" ->
         [worker |-> [worker EXCEPT !.caches =
                        cachePut(@, STATIC_CACHE, request.url, response)],
          out |-> Respond(request, "network", response, outcome)]
    [] outcome = "notok" ->
         [worker |-> worker, out |-> Respond(request, "network", response, outcome)]
    [] OTHER ->
         [worker |-> worker,
          out |-> IF request.accept = "text/html"
                  THEN Respond(request, "offline", offlinePage, outcome)
                  ELSE Respond(request, "error", NoResponse, outcome)]

\* request.url.startsWith('http'): the worker's own origin is http(s), as are the
\* origins of the fonts
startsWithHttp(url) == url.origin \in {SelfOrigin, FontsOrigin}

\* handleNetworkFirst looking into the caches before it answers
networkFirstSettlesCacheFirst(worker, request, outcome, response) ==
  IF cachesMatch(worker.caches, request.url) # NoResponse
  THEN [worker |-> worker,
        out |-> Respond(request, "cache", cachesMatch(worker.caches, request.url), outcome)]
  ELSE IF outcome = "fail"
  THEN [worker |-> worker,
        out |-> IF request.mode = "navigate"
                THEN Respond(request, "offline", offlinePage, outcome)
                ELSE Respond(request, "error", NoResponse, outcome)]
  ELSE [worker |-> IF outcome = "ok"
                   THEN [worker EXCEPT !.caches =
                           cachePut(@, DYNAMIC_CACHE, request.url, response)]
                   ELSE worker,
        out |-> Respond(request, "network", response, outcome)]

networkFirstSettles(worker, request, outcome, response) ==
  CASE outcome = "ok" /\ startsWithHttp(request.url) ->
         [worker |-> [worker EXCEPT !.caches =
                        cachePut(@, DYNAMIC_CACHE, request.url, response)],
          out |-> Respond(request, "network", response, outcome)]
    [] outcome \in {"ok", "notok"} ->
         [worker |-> worker, out |-> Respond(request, "network", response, outcome)]
    [] OTHER ->
         [worker |-> worker,
          out |-> IF cachesMatch(worker.caches, request.url) # NoResponse
                  THEN Respond(request, "cache",
                               cachesMatch(worker.caches, request.url), outcome)
                  ELSE IF request.mode = "navigate"
                  THEN Respond(request, "offline", offlinePage, outcome)
                  ELSE Respond(request, "error", NoResponse, outcome)]

runtimeCacheSettles(worker, frame, outcome, response) ==
  LET after == IF outcome = "ok"
               THEN [worker EXCEPT !.caches =
                       cachePut(@, DYNAMIC_CACHE, frame.request.url, response)]
               ELSE worker
      value == IF outcome = "fail" THEN frame.cached ELSE response
  IN  [worker |-> after,
       out |-> IF frame.cached # NoResponse
               THEN NoOutput
               ELSE IF value = NoResponse
               THEN Respond(frame.request, "undefined", NoResponse, outcome)
               ELSE Respond(frame.request, "network", value, outcome)]

FetchSettles(k, outcome, body) ==
  /\ k \in DOMAIN sw.frames
  /\ sw.frames[k].kind \in {"static", "networkFirst", "runtime"}
  /\ LET frame == sw.frames[k]
         rest == [sw EXCEPT !.frames = RemoveAt(@, k)]
         response == IF outcome = "fail" THEN NoResponse
                     ELSE [status |-> outcome, body |-> body]
         result == CASE frame.kind = "static" ->
                          staticAssetSettles(rest, frame.request, outcome, response)
                     [] frame.kind = "networkFirst" ->
                          networkFirstSettles(rest, frame.request, outcome, response)
                     [] OTHER ->
                          runtimeCacheSettles(rest, frame, outcome, response)
     IN  SwStep(result.worker, result.out)

(***************************************************************************)
(* message: CACHE_ICONS, CLEAR_CACHE or GET_CACHE_SIZE from a client, the  *)
(* last with or without a MessagePort to reply on.  The handler passes the *)
(* promise of cacheGeneratedIcons / clearAllCaches / getCacheSize to       *)
(* waitUntil; a type it does not know is ignored.                          *)
(***************************************************************************)
MessageTypes == {"CACHE_ICONS", "CLEAR_CACHE", "GET_CACHE_SIZE"}

\* data.icons of a CACHE_ICONS message
SampleIcons == <<16, 72>>

generatedIconUrl(size) ==
  Url(SelfOrigin,
      CASE size = 16 -> "/generated-icon-16"
        [] size = 72 -> "/generated-icon-72"
        [] OTHER -> "/generated-icon-192",
      "")

SwMessage(type, hasPort) ==
  /\ sw.phase # "redundant"
  /\ sw.messages < MaxMessages
  /\ type = "GET_CACHE_SIZE" \/ ~hasPort
  /\ SwStep([sw EXCEPT !.messages = @ + 1,
                       !.frames = Append(@,
                          CASE type = "CACHE_ICONS" -> [kind |-> "icons", i |-> 0]
                            [] type = "CLEAR_CACHE" -> [kind |-> "clear"]
                            [] OTHER -> [kind |-> "size", hasPort |-> hasPort])],
            NoOutput)

\* cacheGeneratedIcons: one awaited cache.put per icon
CacheIconStep(k) ==
  /\ k \in DOMAIN sw.frames
  /\ sw.frames[k].kind = "icons"
  /\ LET i == sw.frames[k].i + 1
         put == [sw EXCEPT !.caches = cachePut(@, DYNAMIC_CACHE,
                                               generatedIconUrl(SampleIcons[i]),
                                               [status |-> "ok", body |-> "icon"])]
     IN  SwStep(IF i < Len(SampleIcons)
                THEN [put EXCEPT !.frames[k].i = i]
                ELSE [put EXCEPT !.frames = RemoveAt(@, k)],
                NoOutput)

\* clearAllCaches: every cache is deleted
ClearSettles(k) ==
  /\ k \in DOMAIN sw.frames
  /\ sw.frames[k].kind = "clear"
  /\ SwStep([sw EXCEPT !.caches = <<>>, !.frames = RemoveAt(@, k)], [kind |-> "cleared"])

\* the reply posted on the port
cacheSizeReply(size) == [type |-> "CACHE_SIZE", size |-> size]

\* getCacheSize resolves (with 0 from its catch block if a cache operation failed);
\* the reply is posted on event.ports[0], and with no port that throws
SizeSettles(k, failed) ==
  /\ k \in DOMAIN sw.frames
  /\ sw.frames[k].kind = "size"
  /\ LET size == IF failed THEN 0 ELSE totalSize(sw.caches)
         rest == [sw EXCEPT !.frames = RemoveAt(@, k)]
     IN  IF sw.frames[k].hasPort
         THEN SwStep([rest EXCEPT !.toPage = Append(@, cacheSizeReply(size))],
                     [kind |-> "sizeReply", failed |-> failed,
                      total |-> totalSize(sw.caches), message |-> cacheSizeReply(size)])
         ELSE SwStep(rest, [kind |-> "sizeNoPort"])

(***************************************************************************)
(* sync with tag 'sync-icons': SYNC_COMPLETE is posted to the clients.     *)
(***************************************************************************)
Sync ==
  /\ sw.phase = "activated"
  /\ sw.messages < MaxMessages
  /\ SwStep([sw EXCEPT !.messages = @ + 1,
                       !.toPage = Append(@, [type |-> "SYNC_COMPLETE",
                                             data |-> [syncType |-> "icons"]])],
            [kind |-> "sync"])

(***************************************************************************)
(* The page's handler of messages from the worker:                         *)
(*   const { type, data } = event.data;                                    *)
(*   SYNC_COMPLETE: app.showFeedback(...);  CACHE_SIZE: reads data.size    *)
(* Reading a property of an undefined data throws a TypeError.             *)
(***************************************************************************)
pageOnMessage(msg) ==
  CASE msg.type = "SYNC_COMPLETE" -> [error |-> FALSE, shown |-> showFeedback]
    [] msg.type = "CACHE_SIZE" ->
         [error |-> ~("data" \in DOMAIN msg), shown |-> "none"]
    [] OTHER -> [error |-> FALSE, shown |-> "none"]

PageReceives ==
  /\ sw.toPage # <<>>
  /\ sw' = [sw EXCEPT !.toPage = Tail(@)]
  /\ swOut' = NoOutput
  /\ Step([kind |-> "workerMessage", msg |-> Head(sw.toPage),
           error |-> pageOnMessage(Head(sw.toPage)).error],
          pageOnMessage(Head(sw.toPage)).shown, NoArchive, NoManifest)
  /\ UNCHANGED pageVars

(***************************************************************************)
(* The access-control script, in its two copies: src/unnamed/part_001      *)
(* keeps a counter of redirects in sessionStorage, the copy at the head of *)
(* src/unnamed/part_002 keeps none and tests the referrer with startsWith. *)
(* sessionStorage belongs to the tab and the page's origin and outlives    *)
(* the redirect to the hub.                                                *)
(***************************************************************************)
ALLOWED_ORIGINS ==
  {"https://statelessplatform.com", "https://www.statelessplatform.com",
   "http://localhost:3000", "http://localhost:5500"}

HUB_URL == "https://statelessplatform.com"

MAX_REDIRECT_ATTEMPTS == 2

AccessScripts == {"part_001", "part_002"}

\* where the application is served from: a deployment and a development server
PageOrigins == {"https://iconforge.example", "http://localhost:3000"}

\* document.referrer: none, a page of the hub, a page of another site, and a page
\* of another site whose URL carries the hub's origin in its query
Referrer(origin, query) == [origin |-> origin, query |-> query]

NoReferrer == Referrer("", "")

Referrers ==
  {NoReferrer, Referrer(HUB_URL, ""), Referrer("https://other.example", ""),
   Referrer("https://other.example", HUB_URL)}

referrerIncludes(referrer, origin) == referrer.origin = origin \/ referrer.query = origin

referrerStartsWith(referrer, origin) == referrer.origin = origin

\* Number.prototype.toString and parseInt on the counter's values
Digits == <<"0", "1", "2", "3", "4", "5", "6">>

toString(n) == Digits[n + 1]

parseInt(str) == CHOOSE n \in 0..(Len(Digits) - 1) : Digits[n + 1] = str

NoItem == "null"

getRedirectAttempts(storage) ==
  parseInt(IF storage.redirectAttempts = NoItem THEN "0" ELSE storage.redirectAttempts)

incrementRedirectAttempts(storage) ==
  [storage EXCEPT !.redirectAttempts = toString(getRedirectAttempts(storage) + 1)]

removeRedirectAttempts(storage) == [storage EXCEPT !.redirectAttempts = NoItem]

\* isAccessAllowed: its result and the sessionStorage it leaves
isAccessAllowed(script, origin, referrer, storage) ==
  IF origin \in ALLOWED_ORIGINS
  THEN [allowed |-> TRUE, storage |-> storage]
  ELSE IF script = "part_001"
  THEN IF referrer # NoReferrer /\ \E o \in ALLOWED_ORIGINS : referrerIncludes(referrer, o)
       THEN [allowed |-> TRUE, storage |-> removeRedirectAttempts(storage)]
       ELSE IF storage.hubReferrer = "statelessplatform.com"
       THEN [allowed |-> TRUE, storage |-> removeRedirectAttempts(storage)]
       ELSE [allowed |-> FALSE, storage |-> storage]
  ELSE [allowed |-> referrer # NoReferrer
                      /\ \E o \in ALLOWED_ORIGINS : referrerStartsWith(referrer, o),
        storage |-> storage]

\* part_001's enforceHubAccess without its test of the counter
enforceHubAccessUnlimited(script, origin, referrer, storage) ==
  LET access == isAccessAllowed(script, origin, referrer, storage)
  IN  IF ~access.allowed
      THEN [allowed |-> FALSE, redirected |-> TRUE,
            storage |-> IF script = "part_001"
                        THEN incrementRedirectAttempts(access.storage)
                        ELSE access.storage]
      ELSE [allowed |-> TRUE, redirected |-> FALSE,
            storage |-> IF script = "part_001"
                        THEN removeRedirectAttempts(access.storage)
                        ELSE access.storage]

\* enforceHubAccess: whether it called window.location.replace(HUB_URL), and the
\* sessionStorage it leaves
enforceHubAccess(script, origin, referrer, storage) ==
  LET access == isAccessAllowed(script, origin, referrer, storage)
  IN  IF ~access.allowed
      THEN IF script = "part_001"
           THEN IF getRedirectAttempts(access.storage) >= MAX_REDIRECT_ATTEMPTS
                THEN [allowed |-> FALSE, redirected |-> FALSE, storage |-> access.storage]
                ELSE [allowed |-> FALSE, redirected |-> TRUE,
                      storage |-> incrementRedirectAttempts(access.storage)]
           ELSE [allowed |-> FALSE, redirected |-> TRUE, storage |-> access.storage]
      ELSE [allowed |-> TRUE, redirected |-> FALSE,
            storage |-> IF script = "part_001"
                        THEN removeRedirectAttempts(access.storage)
                        ELSE access.storage]

\* a tab in which the application has not been opened yet
NewTab == [at |-> "blank"]

\* the application's URL is opened in a new tab: its sessionStorage is empty, or
\* holds the hub's flag
OpenTab(script, origin, flag) ==
  /\ ac.at = "blank"
  /\ ac' = [at |-> "opening", script |-> script, origin |-> origin,
            storage |-> [redirectAttempts |-> NoItem, hubReferrer |-> flag],
            loads |-> 0, redirects |-> 0, allowed |-> FALSE, redirected |-> FALSE]
  /\ UNCHANGED <<dom, sw, swOut, copy, bound, db, session, checked, formatRadio, uiChanges,
                 jsZipLoaded, currentImage, generatedIcons, runs, zipJob, iconsStore,
                 settingsStore, pendingPuts, evt, notification, archive, pwaManifest, fit>>

\* the page loads in that tab and the script runs; redirects counts the calls of
\* location.replace since the last load that was allowed
AccessLoad(referrer) ==
  /\ ac.at # "blank"
  /\ ac.loads < MaxLoads
  /\ LET result == enforceHubAccess(ac.script, ac.origin, referrer, ac.storage)
     IN  ac' = [ac EXCEPT !.at = IF result.redirected THEN "hub" ELSE "app",
                          !.storage = result.storage,
                          !.loads = @ + 1,
                          !.redirects = IF result.allowed THEN 0
                                        ELSE IF result.redirected THEN @ + 1 ELSE @,
                          !.allowed = result.allowed,
                          !.redirected = result.redirected]
  /\ UNCHANGED <<dom, sw, swOut, copy, bound, db, session, checked, formatRadio, uiChanges,
                 jsZipLoaded, currentImage, generatedIcons, runs, zipJob, iconsStore,
                 settingsStore, pendingPuts, evt, notification, archive, pwaManifest, fit>>

(***************************************************************************)
(* The application after init() succeeded: the database is open and the    *)
(* listeners are bound.  The controls are as the markup and the restored   *)
(* settings left them: any of the given selections.                        *)
(***************************************************************************)
Started(markupChecked, markupRadio) ==
  /\ copy \in Copies
  /\ bound = TRUE
  /\ db = "open"
  /\ session = 1
  /\ checked \in markupChecked
  /\ formatRadio \in markupRadio
  /\ uiChanges = 0
  /\ jsZipLoaded \in BOOLEAN
  /\ currentImage = 0
  /\ generatedIcons = <<>>
  /\ runs = <<>>
  /\ zipJob = NoJob
  /\ iconsStore = <<>>
  /\ settingsStore = NoSettings
  /\ pendingPuts = <<>>
  /\ evt = NoEvent
  /\ notification = "none"
  /\ archive = NoArchive
  /\ pwaManifest = NoManifest
  /\ fit = NoFit
  /\ sw = NewWorker
  /\ swOut = NoOutput
  /\ ac = NewTab
  /\ dom = NewDom

Init == Started(SUBSET Range(Checkboxes), {"png"})

\* one file and one text that pass validation in both copies
SampleFile == [type |-> "image/png", size |-> 10 * MiB]

SampleText == <<"a">>

Generation ==
  \/ \E r \in 1..MaxRuns : ImageLoaded(r)
  \/ \E r \in 1..MaxRuns : ImageFailed(r)
  \/ \E r \in 1..MaxRuns : GenerateResume(r)
  \/ \E r \in 1..MaxRuns, ok \in BOOLEAN : StoreImageDone(r, ok)

(***************************************************************************)
(* Spec: generation, packaging and the manifest, with inputs that pass     *)
(* validation and the selection left as it is.                             *)
(***************************************************************************)
Next ==
  \/ ProcessFile(SampleFile)
  \/ GenerateTextIcon(SampleText)
  \/ Generation
  \/ DownloadAllIcons
  \/ ZipResume
  \/ ZipFailed
  \/ GeneratePWAManifest

Spec == Init /\ [][Next]_vars

(***************************************************************************)
(* SpecInput: the two validating handlers with every input, and the runs   *)
(* the accepted inputs start.                                              *)
(***************************************************************************)
NextInput ==
  \/ \E file \in Files : ProcessFile(file)
  \/ \E raw \in Texts : GenerateTextIcon(raw)
  \/ Generation

SpecInput == Init /\ [][NextInput]_vars

(***************************************************************************)
(* SpecSettings: the settings record across page loads.                    *)
(***************************************************************************)
NextSettings ==
  \/ \E v \in Range(Checkboxes) : ToggleSize(v)
  \/ \E f \in Formats : SelectFormat(f)
  \/ \E ok \in BOOLEAN : SettingsPutDone(ok)
  \/ \E c \in SUBSET Range(Checkboxes), f \in Formats \cup {NoRadio}, opened, got \in BOOLEAN :
       PageLoad(c, f, opened, got)

SpecSettings == Started(SUBSET Range(Checkboxes), Formats \cup {NoRadio}) /\ [][NextSettings]_vars

(***************************************************************************)
(* SpecFaults: Spec with the failures the handlers provide for: a page     *)
(* load whose database does not open, an iteration of generateIcons that   *)
(* throws, store requests and archive steps that fail.                     *)
(***************************************************************************)
NextFaults ==
  \/ ProcessFile(SampleFile)
  \/ GenerateTextIcon(SampleText)
  \/ Generation
  \/ \E r \in 1..MaxRuns : GenerateThrows(r)
  \/ DownloadAllIcons
  \/ ZipResume
  \/ ZipFailed
  \/ \E c \in {{16}, Range(Checkboxes)}, opened, got \in BOOLEAN : PageLoad(c, "png", opened, got)

SpecFaults == Started({{}, {16}, Range(Checkboxes)}, {"png"}) /\ [][NextFaults]_vars

(***************************************************************************)
(* SpecWeight: the font weight generateTextIcon uses, for every value of   *)
(* the control.                                                            *)
(***************************************************************************)
NextWeight ==
  \/ \E input \in WeightInputs : ReadFontWeight(input)

SpecWeight == Started({Range(Checkboxes)}, {"png"}) /\ [][NextWeight]_vars

(***************************************************************************)
(* SpecWorker: the service worker from its installation on, the requests   *)
(* of the page it controls, the messages sent to it and its replies.       *)
(***************************************************************************)
NextWorker ==
  \/ \E precached \in BOOLEAN : InstallDone(precached)
  \/ Activate
  \/ \E request \in Requests : Fetch(request)
  \/ \E k \in 1..(MaxFetches + MaxMessages), outcome \in {"ok", "notok", "fail"},
         body \in NetBodies : FetchSettles(k, outcome, body)
  \/ \E type \in MessageTypes, hasPort \in BOOLEAN : SwMessage(type, hasPort)
  \/ \E k \in 1..(MaxFetches + MaxMessages) : CacheIconStep(k)
  \/ \E k \in 1..(MaxFetches + MaxMessages) : ClearSettles(k)
  \/ \E k \in 1..(MaxFetches + MaxMessages), failed \in BOOLEAN : SizeSettles(k, failed)
  \/ Sync
  \/ PageReceives

InitWorker == Started({Range(Checkboxes)}, {"png"}) /\ jsZipLoaded = TRUE

SpecWorker == InitWorker /\ [][NextWorker]_vars

(***************************************************************************)
(* SpecSelection: the controls changed, and the settings written, while    *)
(* runs are under way.                                                     *)
(***************************************************************************)
NextSelection ==
  \/ ProcessFile(SampleFile)
  \/ GenerateTextIcon(SampleText)
  \/ Generation
  \/ \E v \in Range(Checkboxes) : ToggleSize(v)
  \/ \E f \in Formats : SelectFormat(f)
  \/ \E ok \in BOOLEAN : SettingsPutDone(ok)

InitSelection == Started({{16, 72}}, {"png"}) /\ jsZipLoaded = TRUE

SpecSelection == InitSelection /\ [][NextSelection]_vars

(***************************************************************************)
(* SpecPackaging: the controls changed between an upload's run and the     *)
(* packaging of its result.                                                *)
(***************************************************************************)
NextPackaging ==
  \/ ProcessFile(SampleFile)
  \/ Generation
  \/ \E v \in Range(Checkboxes) : ToggleSize(v)
  \/ \E f \in Formats : SelectFormat(f)
  \/ DownloadAllIcons
  \/ ZipResume

SpecPackaging == InitSelection /\ [][NextPackaging]_vars

(***************************************************************************)
(* SpecPreview: the preview grid and its download buttons, with runs that  *)
(* follow one another, overlap, or fail part-way.                          *)
(***************************************************************************)
NextPreview ==
  \/ ProcessFile(SampleFile)
  \/ GenerateTextIcon(SampleText)
  \/ Generation
  \/ \E r \in 1..MaxRuns : GenerateThrows(r)
  \/ \E index \in 0..(Len(Checkboxes) - 1), ok \in BOOLEAN : DownloadSingle(index, ok)

SpecPreview == Started({{16}, Range(Checkboxes)}, {"png"}) /\ [][NextPreview]_vars

(***************************************************************************)
(* SpecLoading: the operations that show the loading overlay.  Whatever an *)
(* operation awaits settles: an image loads or fails to, a timer fires, a  *)
(* store request completes, an iteration throws or does not.               *)
(***************************************************************************)
Settles ==
  \/ Generation
  \/ \E r \in 1..MaxRuns : GenerateThrows(r)
  \/ ZipResume
  \/ ZipFailed

NextLoading ==
  \/ ProcessFile(SampleFile)
  \/ GenerateTextIcon(SampleText)
  \/ DownloadAllIcons
  \/ Settles

SpecLoading ==
  /\ Started({{16}, Range(Checkboxes)}, {"png"})
  /\ [][NextLoading]_vars
  /\ WF_vars(Settles)

(***************************************************************************)
(* SpecAccess: the loads of the page in one tab, under either copy of the  *)
(* access-control script.                                                  *)
(***************************************************************************)
NextAccess ==
  \/ \E script \in AccessScripts, origin \in PageOrigins,
         flag \in {NoItem, "statelessplatform.com"} : OpenTab(script, origin, flag)
  \/ \E referrer \in Referrers : AccessLoad(referrer)

SpecAccess == Started({Range(Checkboxes)}, {"png"}) /\ [][NextAccess]_vars

(***************************************************************************)
(* SpecFit: fitTextToCanvas on every text that passes validation, under    *)
(* every outcome of the measurements.                                      *)
(***************************************************************************)
AllMeasurements == Measurements(TRUE) \cup Measurements(FALSE)

NextFit ==
  \/ \E text \in FitTexts, gap \in BOOLEAN : FitStart(text, gap)
  \/ \E m \in AllMeasurements : FitProbe(m)
  \/ FitReturn

SpecFit == Started({Range(Checkboxes)}, {"png"}) /\ [][NextFit]_vars

(***************************************************************************)
(*                              Properties                                 *)
(***************************************************************************)
ArtifactsOf(run) ==
  [k \in DOMAIN run.selectedSizes |->
     Artifact(run.image, run.selectedSizes[k], run.format, run.type)]

\* C1: when a generation run that started with a non-empty list of selected sizes S
\* and format F returns from generateIcons, generatedIcons has length |S| and its
\* i-th artifact has size S[i] and format F.
C1_ResultFollowsSelection ==
  [][\A r \in DOMAIN runs :
       (runs[r].pc = "gen" /\ runs'[r].pc \in {"storing", "done"})
         => /\ Len(generatedIcons') = Len(runs[r].selectedSizes)
            /\ \A k \in DOMAIN generatedIcons' :
                 /\ generatedIcons'[k].size = runs[r].selectedSizes[k]
                 /\ generatedIcons'[k].format = runs[r].format]_vars

\* C2: once every started run has finished, generatedIcons holds exactly the artifacts
\* of the most recently started generation run (the one whose image is currentImage)
\* and no artifact of an earlier run.
AllRunsFinished == \A r \in DOMAIN runs : runs[r].pc \in {"done", "failed"}

C2_LastRunReplacesList ==
  (AllRunsFinished /\ currentImage # 0)
    => generatedIcons = ArtifactsOf(runs[currentImage])

IconEntries(files) == {k \in DOMAIN files : files[k].name # ManifestName}

ManifestEntries(files) == {k \in DOMAIN files : files[k].name = ManifestName}

C4_ArchiveHoldsNIcons ==
  archive.made =>
    /\ Cardinality(ManifestEntries(archive.files)) = 1
    /\ Cardinality(IconEntries(archive.files)) = Len(generatedIcons)
    /\ \A k \in ManifestEntries(archive.files) :
         archive.files[k].data.total_icons = Len(generatedIcons)

\* C5: the icons array of the manifest made by generatePWAManifest from a non-empty
\* list holds, in list order, exactly the artifacts of size >= 72, and an entry's
\* purpose is "maskable any" if and only if its size is >= 192, else "any".
KeptPositions(list) == {k \in DOMAIN list : list[k].size >= 72}

RankIn(K, k) == Cardinality({j \in K : j <= k})

C5_PwaIconsFiltered ==
  pwaManifest.made =>
    LET list == pwaManifest.from
        icons == pwaManifest.icons
    IN  /\ list # <<>>
        /\ DOMAIN icons = 1..Cardinality(KeptPositions(list))
        /\ \A k \in KeptPositions(list) :
             LET entry == icons[RankIn(KeptPositions(list), k)]
             IN  /\ entry.src = list[k].filename
                 /\ entry.sizes = <<list[k].size, list[k].size>>
                 /\ (entry.purpose = "maskable any") <=> (list[k].size >= 192)
                 /\ (entry.purpose = "any") <=> (list[k].size < 192)

C5_Witness ==
  /\ pwaManifest.made
  /\ \E j, k, l \in DOMAIN pwaManifest.from :
       /\ pwaManifest.from[j].size < 72
       /\ pwaManifest.from[k].size = 72
       /\ pwaManifest.from[l].size >= 192
  /\ Len(pwaManifest.icons) = 2

\* C6 as claimed: whenever a page load reads a stored settings record, the selected
\* sizes and the format after the load equal the stored ones, the empty list of sizes
\* included.
Reloaded(e) == e.kind = "load" /\ e.opened /\ e.got

C6_RoundTripAnySizes ==
  [][(Reloaded(evt') /\ settingsStore # NoSettings)
       => /\ SelectedSizes' = settingsStore.selectedSizes
          /\ SelectedFormat' = settingsStore.outputFormat]_vars

\* C6 as amended: whenever a page load reads a stored settings record whose list of
\* sizes is not empty, the selected sizes and the format after the load equal the
\* stored ones, whatever the selection was before; a stored empty list leaves the
\* checkboxes as they were.
C6_RoundTripNonEmptySizes ==
  [][(Reloaded(evt') /\ settingsStore # NoSettings)
       => /\ settingsStore.selectedSizes # <<>>
               => SelectedSizes' = settingsStore.selectedSizes
          /\ settingsStore.selectedSizes = <<>>
               => checked' = evt'.markupChecked
          /\ SelectedFormat' = settingsStore.outputFormat]_vars

C6_Witness ==
  /\ Reloaded(evt)
  /\ settingsStore # NoSettings
  /\ settingsStore.selectedSizes # <<>>
  /\ evt.markupChecked # checked
  /\ getSelectedFormat(evt.markupRadio) # SelectedFormat
  /\ SelectedSizes = settingsStore.selectedSizes
  /\ SelectedFormat = settingsStore.outputFormat

\* C7: a step handed a rejected input (a text that is empty or longer than 3
\* characters once trimmed, a file of a type that is not allowed, a file over the size
\* limit of the running copy) starts no generation run, leaves generatedIcons,
\* currentImage and the stores as they are, and shows an error notification.
RejectedText(raw) == Len(trim(raw)) = 0 \/ Len(trim(raw)) > 3

RejectedFile(c, file) ==
  \/ file.type \notin {"image/jpeg", "image/jpg", "image/png", "image/bmp"}
  \/ c = "script_js" /\ file.size > 10 * MiB
  \/ c = "part_000" /\ file.size > 50 * MiB

RejectedInput(c, e) ==
  \/ e.kind = "file" /\ RejectedFile(c, e.file)
  \/ e.kind = "text" /\ RejectedText(e.text)

C8_FittedSizeInDomain ==
  fit.pc = "done" => fit.fittedPx \in 12..420

\* C9 as claimed: the size fitTextToCanvas returns passes the fit test at that size:
\* measured width <= 416 and ascent + descent <= 416 (in tenths of a pixel here).
InsetFits(metrics, size) ==
  /\ metrics.width <= 4160
  /\ (IF metrics.ascent = Undefined THEN 8 * size ELSE metrics.ascent)
       + (IF metrics.descent = Undefined THEN 2 * size ELSE metrics.descent) <= 4160

C9_ReturnedSizeFits ==
  (fit.pc = "done" /\ fit.fittedPx \in DOMAIN fit.measured)
    => InsetFits(fit.measured[fit.fittedPx], fit.fittedPx)

\* C9 as amended: if any size the search probed passed the fit test, the size returned
\* was probed and passes the fit test; if none passed, the lower bound 12 is returned
\* without having passed.
SomeProbeFits ==
  \E size \in DOMAIN fit.measured : InsetFits(fit.measured[size], size)

C9_ReturnedSizeFitsIfAnyProbeDid ==
  fit.pc = "done" =>
    /\ SomeProbeFits
         => /\ fit.fittedPx \in DOMAIN fit.measured
            /\ InsetFits(fit.measured[fit.fittedPx], fit.fittedPx)
    /\ ~SomeProbeFits => fit.fittedPx = 12

C9_Witness ==
  /\ fit.pc = "done"
  /\ Len(fit.text) = 3
  /\ SomeProbeFits
  /\ \E size \in DOMAIN fit.measured : ~InsetFits(fit.measured[size], size)
  /\ fit.fittedPx > 12
  /\ fit.fittedPx < 420

\* C10: in every copy, validateFile rejects (with an error notification) every file
\* larger than 10 * 1024 * 1024 bytes and accepts every file of an allowed type that is
\* not larger.
C10_CeilingIsTenMiB ==
  evt.kind = "file" =>
    ((notification = "error")
       <=> ~(evt.file.type \in {"image/jpeg", "image/jpg", "image/png", "image/bmp"}
             /\ evt.file.size <= 10 * MiB))

\* C11: a database that fails to open at startup degrades silently: the listeners
\* are bound all the same and no error notification is shown for it; and a failed
\* add request of storeImageData leaves the upload run completing with its success
\* notification.
C11_StoreFailureDegradesSilently ==
  /\ (evt.kind = "load" /\ ~evt.opened) => (bound /\ notification # "error")
  /\ (evt.kind = "stored" /\ ~evt.ok)
       => (runs[evt.run].pc = "done" /\ notification = "success")

\* C12: when an iteration of generateIcons throws, on the upload path and on the
\* text path alike, the run is over and an error notification is shown.
C12_GenerationFailureShowsError ==
  evt.kind = "throw"
    => /\ runs[evt.run].pc \notin {"loading", "gen", "storing", "done"}
       /\ notification = "error"

\* C13: downloadAllIcons invoked with an empty list or without the JSZip library
\* shows an error and produces no archive; a packaging step that fails shows an
\* error, produces no archive and ends the job.
C13_DownloadFailureShowsError ==
  /\ (evt.kind = "download" /\ (Len(generatedIcons) = 0 \/ ~jsZipLoaded))
       => (notification = "error" /\ ~archive.made)
  /\ evt.kind = "zipfail"
       => (notification = "error" /\ ~archive.made /\ zipJob = NoJob)

C13_Witness ==
  /\ evt.kind = "zipfail"
  /\ Len(generatedIcons) >= 2
  /\ jsZipLoaded
  /\ notification = "error"
  /\ ~archive.made

\* C15: the weight generateTextIcon uses is a multiple of 100 in [100,900] and no
\* other such multiple is nearer to the input clamped into [100,900]; it is 700 when
\* the control is absent.
Dist(a, b) == IF a > b THEN a - b ELSE b - a

C15_WeightIsNearestHundred ==
  evt.kind = "weight" =>
    LET w == evt.fontWeight
        clamped == IF evt.input.kind = "value"
                   THEN (IF evt.input.n < 100 THEN 100
                         ELSE IF evt.input.n > 900 THEN 900 ELSE evt.input.n)
                   ELSE 700
    IN  /\ w \in {100 * k : k \in 1..9}
        /\ \A k \in 1..9 : Dist(100 * k, clamped) >= Dist(w, clamped)
        /\ evt.input.kind = "absent" => w = 700

C15_Witness ==
  /\ evt.kind = "weight"
  /\ evt.input.kind = "value"
  /\ evt.input.n = 651
  /\ evt.fontWeight = 700

\* C16: the settings store holds at most the one record keyed userSettings; the
\* write queued last is always the selection the controls show; and when a write
\* succeeds with none queued behind it, the stored sizes and format are the
\* selection as the last change event left it.
C16_LastWriteWins ==
  /\ settingsStore # NoSettings => settingsStore.key = "userSettings"
  /\ pendingPuts # <<>>
       => pendingPuts[Len(pendingPuts)] = settingsOf(checked, formatRadio)
  /\ (evt.kind = "put" /\ evt.ok /\ pendingPuts = <<>>)
       => /\ settingsStore.selectedSizes = SelectedSizes
          /\ settingsStore.outputFormat = SelectedFormat

C16_Witness ==
  /\ evt.kind = "put"
  /\ evt.ok
  /\ Len(pendingPuts) = 1
  /\ settingsStore # pendingPuts[1]
  /\ settingsStore.outputFormat # "png"
  /\ pendingPuts[1] = settingsOf(checked, formatRadio)

\* C19: when the measurements taken are those of a fit predicate that is monotone
\* in the size and holds at 12, fitTextToCanvas returns the largest size in
\* [12,420] that fits (the size returned fits and the next one was probed and does
\* not, or is beyond 420), and an iteration run after lo has passed hi leaves best
\* as it is.
FitsAt(measured, size) == InsetFits(measured[size], size)

MonotoneFrom12(measured) ==
  /\ \A s, t \in DOMAIN measured :
       (s < t /\ FitsAt(measured, t)) => FitsAt(measured, s)
  /\ \A s \in DOMAIN measured : s <= 12 => FitsAt(measured, s)

LargestThatFits(f) ==
  /\ f.fittedPx \in 12..420
  /\ f.fittedPx \in DOMAIN f.measured => FitsAt(f.measured, f.fittedPx)
  /\ f.fittedPx > 12 => f.fittedPx \in DOMAIN f.measured
  /\ f.fittedPx < 420
       => /\ f.fittedPx + 1 \in DOMAIN f.measured
          /\ ~FitsAt(f.measured, f.fittedPx + 1)

C19_SearchReturnsLargestFit ==
  [][/\ (fit'.pc = "done" /\ MonotoneFrom12(fit'.measured)) => LargestThatFits(fit')
     /\ (fit.pc = "search" /\ fit'.pc = "search" /\ fit.lo > fit.hi
           /\ MonotoneFrom12(fit'.measured))
          => fit'.best = fit.best]_vars

C19_Witness ==
  /\ fit.pc = "done"
  /\ MonotoneFrom12(fit.measured)
  /\ ~fit.gap
  /\ fit.fittedPx = 300
  /\ 301 \in DOMAIN fit.measured
  /\ 12 \notin DOMAIN fit.measured

\* C14: the reply to GET_CACHE_SIZE is CACHE_SIZE carrying the total size of the
\* caches (0 if the computation failed), and the page's message handler, given
\* that reply, obtains the size without error.
C14_CacheSizeReplyIsRead ==
  /\ swOut.kind = "sizeReply"
       => /\ swOut.message.type = "CACHE_SIZE"
          /\ swOut.message.size = IF swOut.failed THEN 0 ELSE swOut.total
  /\ (evt.kind = "workerMessage" /\ evt.msg.type = "CACHE_SIZE") => ~evt.error

\* C17: once the worker is installed, a request for a precached static asset that
\* finds the network failing (or needs no network) is answered from the cache.
PrecachedUrls == {resolveUrl(STATIC_ASSETS[k]) : k \in DOMAIN STATIC_ASSETS}

C17_PrecachedAssetsServedOffline ==
  (swOut.kind = "response" /\ swOut.request.url \in PrecachedUrls
     /\ swOut.net \in {"none", "fail"})
    => swOut.source = "cache"

\* C18: when the promise of the install handler fulfils, every entry of
\* STATIC_ASSETS is in the static cache; when precaching fails it does not fulfil.
C18_InstallMeansPrecached ==
  swOut.kind = "install"
    => /\ swOut.fulfilled
            => \A u \in PrecachedUrls :
                 cacheMatch(sw.caches, STATIC_CACHE, u) # NoResponse
       /\ ~swOut.precached => ~swOut.fulfilled

\* C20: handleStaticAsset answers a request that has a cache match with that match
\* and issues no fetch; on a miss it fetches, answers with the network response, and
\* writes it to the static cache only if it is ok; when the fetch fails it answers
\* with the offline page if the request accepts text/html and fails otherwise,
\* writing nothing.
C20_StaticAssetsCacheFirst ==
  [][/\ (swOut'.kind = "response" /\ handlerOf(swOut'.request) = "static")
          => LET o == swOut'
                 url == swOut'.request.url
             IN  /\ o.net = "none"
                      => /\ o.source = "cache"
                         /\ o.response # NoResponse
                         /\ o.response = cachesMatch(sw.caches, url)
                         /\ sw'.frames = sw.frames
                         /\ sw'.caches = sw.caches
                 /\ o.net = "ok"
                      => /\ o.source = "network"
                         /\ o.response.status = "ok"
                         /\ cacheMatch(sw'.caches, STATIC_CACHE, url) = o.response
                 /\ o.net = "notok"
                      => /\ o.source = "network"
                         /\ o.response.status = "notok"
                         /\ sw'.caches = sw.caches
                 /\ o.net = "fail"
                      => /\ sw'.caches = sw.caches
                         /\ o.source = IF o.request.accept = "text/html"
                                       THEN "offline" ELSE "error"
     /\ (Len(sw'.frames) > Len(sw.frames) /\ sw'.frames[Len(sw'.frames)].kind = "static")
          => cachesMatch(sw.caches, sw'.frames[Len(sw'.frames)].request.url) = NoResponse
    ]_vars

C20_Witness ==
  /\ swOut.kind = "response"
  /\ handlerOf(swOut.request) = "static"
  /\ swOut.request.url.origin = FontsOrigin
  /\ swOut.net = "notok"
  /\ sw.caches # <<>>
  /\ sw.fetches = 2

\* C21: handleNetworkFirst answers with the network response whenever the fetch
\* succeeds, whatever the caches hold, writing it to the dynamic cache if it is ok
\* and writing nothing otherwise; when the fetch fails it answers with the cached
\* match if there is one, else with the offline page for a navigation, else it
\* fails; a failed fetch writes nothing.
C21_NetworkFirst ==
  [][(swOut'.kind = "response" /\ handlerOf(swOut'.request) = "networkFirst")
       => LET o == swOut'
              url == swOut'.request.url
          IN  /\ o.net = "ok"
                   => /\ o.source = "network"
                      /\ o.response.status = "ok"
                      /\ cacheMatch(sw'.caches, DYNAMIC_CACHE, url) = o.response
              /\ o.net = "notok"
                   => /\ o.source = "network"
                      /\ o.response.status = "notok"
                      /\ sw'.caches = sw.caches
              /\ o.net = "fail"
                   => /\ sw'.caches = sw.caches
                      /\ IF cachesMatch(sw.caches, url) # NoResponse
                         THEN o.source = "cache" /\ o.response = cachesMatch(sw.caches, url)
                         ELSE o.source = IF o.request.mode = "navigate"
                                         THEN "offline" ELSE "error"
    ]_vars

\* a second request for the icon fails on the network and is answered with what
\* the first one left in the dynamic cache
C21_Witness ==
  /\ swOut.kind = "response"
  /\ handlerOf(swOut.request) = "networkFirst"
  /\ swOut.request.mode # "navigate"
  /\ swOut.net = "fail"
  /\ swOut.source = "cache"
  /\ swOut.response = cacheMatch(sw.caches, DYNAMIC_CACHE, swOut.request.url)

\* C22: a GET for a runtime-cacheable URL is answered stale-while-revalidate: with
\* the dynamic-cache entry if there is one, else with the network response; a
\* network fetch is started in both cases; an ok response of it replaces the entry
\* of the dynamic cache, and a failed or non-ok one leaves the caches as they are.
C22_StaleWhileRevalidate ==
  [][/\ (sw'.fetches = sw.fetches + 1 /\ swOut'.kind = "response"
            /\ isRuntimeCacheable(swOut'.request))
          => /\ swOut'.response = cacheMatch(sw.caches, DYNAMIC_CACHE, swOut'.request.url)
             /\ Len(sw'.frames) = Len(sw.frames) + 1
     /\ (Len(sw'.frames) < Len(sw.frames) /\ swOut'.kind = "response"
            /\ isRuntimeCacheable(swOut'.request))
          => /\ swOut'.source = "network"
             /\ swOut'.net = "ok"
                  => cacheMatch(sw'.caches, DYNAMIC_CACHE, swOut'.request.url)
                       = swOut'.response
             /\ swOut'.net # "ok" => sw'.caches = sw.caches
    ]_vars

\* C23: under the script with the attempt counter, in any sequence of loads in one
\* tab that are not allowed at most MAX_REDIRECT_ATTEMPTS redirects to the hub are
\* issued, the stored counter never exceeds MAX_REDIRECT_ATTEMPTS, and a load that
\* is allowed leaves no counter in sessionStorage.
C23_RedirectsBounded ==
  (ac.at \in {"app", "hub"} /\ ac.script = "part_001")
    => /\ ac.redirects <= MAX_REDIRECT_ATTEMPTS
       /\ getRedirectAttempts(ac.storage) <= MAX_REDIRECT_ATTEMPTS
       /\ ac.redirects = getRedirectAttempts(ac.storage)
       /\ ac.allowed => ac.storage.redirectAttempts = NoItem

\* the third load in a row that is not allowed: no further redirect
C23_Witness ==
  /\ ac.at = "app"
  /\ ac.script = "part_001"
  /\ ~ac.allowed
  /\ ~ac.redirected
  /\ ac.redirects = MAX_REDIRECT_ATTEMPTS
  /\ ac.storage.redirectAttempts = "2"

\* C24: every load of the page for which isAccessAllowed returns false ends in a
\* redirect to the hub, under either copy of the script.
C24_DisallowedLoadRedirects ==
  (ac.at \in {"app", "hub"} /\ ~ac.allowed) => (ac.redirected /\ ac.at = "hub")

\* C25: in every archive downloadAllIcons produces, the manifest's sizes are the
\* sizes of the packaged icons, in order, and its format is the format of every
\* packaged icon.
PackagedIcons(files) == SelectSeq(files, LAMBDA f : f.name # ManifestName)

ManifestOf(files) == files[CHOOSE k \in ManifestEntries(files) : TRUE].data

C25_ManifestDescribesPackagedIcons ==
  archive.made =>
    LET icons == PackagedIcons(archive.files)
        manifest == ManifestOf(archive.files)
    IN  /\ manifest.sizes = [k \in DOMAIN icons |-> icons[k].name[2]]
        /\ \A k \in DOMAIN icons : icons[k].name[4] = manifest.format

\* C26: an archive downloadAllIcons produces holds the artifacts of one run's list:
\* its icon entries come from one run, the manifest's icons array names exactly
\* those entries, and total_icons is their number.
C26_ArchiveOfOneList ==
  archive.made =>
    LET icons == PackagedIcons(archive.files)
        manifest == ManifestOf(archive.files)
    IN  /\ manifest.total_icons = Len(icons)
        /\ Len(manifest.icons) = Len(icons)
        /\ \A k \in DOMAIN icons :
             k \in DOMAIN manifest.icons => manifest.icons[k].filename = icons[k].name
        /\ \A j, k \in DOMAIN icons : icons[j].data[1] = icons[k].data[1]

\* C28: a run takes the selection when generateIcons starts; every artifact it
\* appends later has the size at that position of the sizes taken then, and the
\* format taken then, whatever the controls say by that time; and no step of a run
\* touches the settings record or queues a write of it.
C28_RunUsesSnapshot ==
  [][/\ \A r \in DOMAIN runs :
          /\ (runs[r].pc = "loading" /\ r \in DOMAIN runs' /\ runs'[r].pc # "loading"
                /\ runs'[r].type = runs[r].type /\ runs'[r].pc # "failed")
               => /\ runs'[r].selectedSizes = getSelectedSizes(checked)
                  /\ runs'[r].format = getSelectedFormat(formatRadio)
                  /\ runs'[r].selectedSizes # <<>>
                       => generatedIcons' =
                            <<Artifact(runs[r].image, getSelectedSizes(checked)[1],
                                       getSelectedFormat(formatRadio), runs[r].type)>>
          /\ (runs[r].pc = "gen" /\ r \in DOMAIN runs' /\ runs'[r].pc = "gen"
                /\ runs'[r].i = runs[r].i + 1)
               => /\ runs'[r].selectedSizes = runs[r].selectedSizes
                  /\ runs'[r].format = runs[r].format
                  /\ generatedIcons' =
                       Append(generatedIcons,
                              Artifact(runs[r].image, runs[r].selectedSizes[runs[r].i + 2],
                                       runs[r].format, runs[r].type))
     /\ runs' # runs => (settingsStore' = settingsStore /\ pendingPuts' = pendingPuts)
    ]_vars

\* a run that took sizes 16 and 72 appended its 72 after 72 had been unchecked
C28_Witness ==
  /\ \E r \in DOMAIN runs :
       /\ runs[r].pc = "gen"
       /\ runs[r].i = 1
       /\ runs[r].selectedSizes = <<16, 72>>
       /\ runs[r].format = "png"
  /\ checked = {16}
  /\ formatRadio = "webp"
  /\ Len(generatedIcons) = 2
  /\ generatedIcons[2].filename = Filename(72, "png")

\* C27: whenever the loading overlay is shown it is hidden again later, whether
\* the operation that showed it succeeds or fails, with no Escape key pressed.
C27_LoadingEventuallyHidden == dom.loadingOverlay ~> ~dom.loadingOverlay

\* C29: whenever the preview grid shows items, item i shows generatedIcons[i], and
\* a click on the button of an item downloads exactly the artifact that item shows.
C29_PreviewMatchesList ==
  /\ dom.previewGrid # <<>> => dom.previewGrid = generatedIcons
  /\ evt.kind = "single" /\ notification # showError => evt.downloaded = <<evt.item>>

\* C30: whatever the fetch handler passes to respondWith settles with a response
\* or rejects, and rejects only when the network fetch failed; it never fulfils
\* with no response, not even for a runtime-cacheable request that is in no cache
\* when the network fails.
C30_RespondWithNeverUndefined ==
  swOut.kind = "response"
    => /\ swOut.source # "undefined"
       /\ swOut.response = NoResponse <=> swOut.source = "error"
       /\ swOut.source = "error" => swOut.net = "fail"

C30_Witness ==
  /\ swOut.kind = "response"
  /\ isRuntimeCacheable(swOut.request)
  /\ cachesMatch(sw.caches, swOut.request.url) = NoResponse
  /\ swOut.net = "fail"
  /\ swOut.source = "error"

====
